---- MODULE Spec2Model ----
(***************************************************************************)
(* Model of the Graph class of Mycelia (src/src/graph.cpp): the node and   *)
(* edge stores, the adjacency index, the id allocators and the version     *)
(* counter, the mutex, the BoostGraph adapter and the analytics.  The      *)
(* public operations are run one at a time by a single caller, or, in the  *)
(* specifications built from the Enter.. actions, statement by statement   *)
(* by several threads.                                                     *)
(*                                                                         *)
(* nodeMap and edgeMap are hash maps: operator[] on a key that is absent   *)
(* inserts a default-constructed record, find() does not.  Every           *)
(* definition below keeps that difference.                                 *)
(***************************************************************************)
EXTENDS Integers, Sequences, FiniteSets, TLC

\* ---------------------------------------------------------------- bounds
MaxNodeId == 2      \* addNode is enabled while nodeId < MaxNodeId
MaxEdgeId == 1      \* addEdge allocates while edgeId < MaxEdgeId
MaxVersion == 4      \* update() is enabled while version < MaxVersion
MaxRadius == 1      \* randomizePositions(radius), radius in 1..MaxRadius
MaxVel == 1      \* velocity values 0..MaxVel
StaleId == 0      \* the node id held by the callers of accessors and setters
MaxThreads == 2      \* threads that share the graph

\* ------------------------------------------------------ program constants
Sentinel == -1       \* initial value of version, nodeId and edgeId
Failure == -1       \* value returned by a rejected mutation
Free == 0       \* the mutex when no thread holds it

Threads == 1 .. MaxThreads

NodeArgs == 0 .. MaxNodeId     \* node ids passed by callers
EdgeArgs == 0 .. MaxEdgeId     \* edge ids passed by callers
QueryArgs == {StaleId}         \* node ids passed to accessors and setters
\* VruiHelp::randomFloat(): the initial position of a node.  No operation
\* branches on a position, so one value stands for every draw.
RandVals == {0}
Radii == 1 .. MaxRadius
VelVals == 0 .. MaxVel
PosVals == (-MaxRadius .. MaxRadius - 1) \cup RandVals
FieldVals == 0 .. 1            \* label, size and material: default and one other

VARIABLES
    nodes,      \* std::set<int> nodes: the live node ids (getNodes)
    nodeMap,    \* hash map id -> Node
    edges,      \* std::set<int> edges: the live edge ids (getEdges)
    edgeMap,    \* hash map id -> Edge
    version,    \* int version
    nodeId,     \* int nodeId: last node id issued
    edgeId,     \* int edgeId: last edge id issued
    crashed,    \* the process was terminated inside an operation
    op,         \* the last call: its name and two counts taken before it ran
    ret,        \* what the last call returned: [kind, val]
    issuedN,    \* node ids returned by addNode since the last clear
    issuedE,    \* edge ids returned by addEdge since the last clear
    adds,       \* tally: number of addNode calls
    dels,       \* tally: number of deleteNode calls that did not return Failure
    deletedN,   \* tally: node ids deleted since addNode last returned them
    mutex,      \* Threads::Mutex mutex: Free or the thread that holds it
    pc,         \* per thread: where it stands inside the call it is running
    local,      \* per thread: the arguments and locals of that call
    done,       \* successful structural mutations that have returned
    g           \* the BoostGraph the last toBoost() built

graphVars == <<nodes, nodeMap, edges, edgeMap, version, nodeId, edgeId>>
histVars == <<issuedN, issuedE>>
tallyVars == <<adds, dels, deletedN>>
threadVars == <<pc, local, done>>
vars == <<nodes, nodeMap, edges, edgeMap, version, nodeId, edgeId,
          crashed, op, ret, adds, dels, issuedN, issuedE, deletedN,
          mutex, pc, local, done, g>>

\* ------------------------------------------------------------- containers
EmptyMap == [k \in {} |-> 0]

\* map[k] = v
Put(m, k, v) == [x \in DOMAIN m \cup {k} |-> IF x = k THEN v ELSE m[x]]

\* map.erase(k)
Erase(m, k) == [x \in DOMAIN m \ {k} |-> m[x]]

\* Node(): degree counters zero, empty adjacency index, default visual state
DefaultNode ==
    [inDegree |-> 0, outDegree |-> 0, adjacent |-> EmptyMap,
     position |-> 0, velocity |-> 0, label |-> 0, size |-> 0,
     material |-> 0, component |-> 0]

\* Edge(source, target)
NewEdge(source, target) == [source |-> source, target |-> target]

\* nodeMap[node] used as an lvalue or rvalue: inserts Node() when absent
Touch(nm, node) == IF node \in DOMAIN nm THEN nm ELSE Put(nm, node, DefaultNode)

\* nodeMap[node].adjacent[target]: inserts the node and an empty bucket
TouchBucket(nm, node, target) ==
    LET nm1 == Touch(nm, node)
    IN  IF target \in DOMAIN nm1[node].adjacent THEN nm1
        ELSE [nm1 EXCEPT ![node].adjacent = Put(@, target, <<>>)]

\* neighbors.erase(find(neighbors.begin(), neighbors.end(), edge)),
\* for a list that holds edge: the first occurrence goes
RECURSIVE EraseFirst(_, _)
EraseFirst(s, e) ==
    IF s = <<>> THEN <<>>
    ELSE IF Head(s) = e THEN Tail(s)
    ELSE <<Head(s)>> \o EraseFirst(Tail(s), e)

InList(s, e) == \E i \in 1 .. Len(s) : s[i] = e

Min(S) == CHOOSE x \in S : \A y \in S : x <= y

Max(S) == CHOOSE x \in S : \A y \in S : x >= y

Range(s) == {s[i] : i \in 1 .. Len(s)}

\* a, b: two numbers the call has to report, zero when it has none
Call(name, a, b) == [name |-> name, a |-> a, b |-> b]
RetInt(v) == [kind |-> "int", val |-> v]
RetBool(v) == [kind |-> "bool", val |-> IF v THEN 1 ELSE 0]
RetList(s) == [kind |-> "list", val |-> Len(s)]
RetVoid == [kind |-> "void", val |-> 0]
RetNone == [kind |-> "none", val |-> 0]

\* boost::BoostGraph g: a vertex count and the (source, target) pairs added
EmptyGraph == [vertices |-> 0, edges |-> <<>>]

\* a thread that is not inside a call
NoLocals == [name |-> "", a |-> 0, b |-> 0, v |-> 0, id |-> 0]

\* ------------------------------------------------------------------- Init
Init ==
    /\ nodes = {}
    /\ nodeMap = EmptyMap
    /\ edges = {}
    /\ edgeMap = EmptyMap
    /\ version = Sentinel
    /\ nodeId = Sentinel
    /\ edgeId = Sentinel
    /\ crashed = FALSE
    /\ op = Call("Graph", 0, 0)
    /\ ret = RetVoid
    /\ adds = 0
    /\ dels = 0
    /\ issuedN = {}
    /\ issuedE = {}
    /\ deletedN = {}
    /\ mutex = Free
    /\ pc = [t \in Threads |-> "idle"]
    /\ local = [t \in Threads |-> NoLocals]
    /\ done = 0
    /\ g = EmptyGraph

\* ---------------------------------------------------------------- queries
isValidNode(node) == node \in DOMAIN nodeMap
isValidEdge(edge) == edge \in DOMAIN edgeMap
getNodeCount == Cardinality(nodes)
getEdgeCount == Cardinality(edges)

\* the value hasEdge(source, target) returns when called on node map nm
hasEdgeIn(nm, source, target) ==
    target \in DOMAIN Touch(nm, source)[source].adjacent

\* ----------------------------------------------------------------- update
update == /\ version < MaxVersion
          /\ version' = version + 1

\* ---------------------------------------------------------------- addNode
addNode ==
    /\ ~crashed
    /\ nodeId < MaxNodeId
    /\ \E p \in RandVals :
          nodeMap' = Put(nodeMap, nodeId + 1, [DefaultNode EXCEPT !.position = p])
    /\ nodeId' = nodeId + 1
    /\ nodes' = nodes \cup {nodeId + 1}
    /\ update
    /\ op' = Call("addNode", 0, 0)
    /\ ret' = RetInt(nodeId + 1)
    /\ issuedN' = issuedN \cup {nodeId + 1}
    /\ UNCHANGED <<edges, edgeMap, edgeId, crashed, issuedE>>

\* ------------------------------------------------------------- deleteNode
\* variant: the scan tests the source only
KillListSourceOnly(node) ==
    {e \in edges : edgeMap[e].source = node}

\* the edges deleteNode collects: foreach edge in edges, source or target is node
KillList(node) ==
    {e \in edges : edgeMap[e].source = node \/ edgeMap[e].target = node}

\* variant: the node leaves nodeMap but stays in the live set
deleteNodeKeepsLive(node) ==
    /\ ~crashed
    /\ IF ~isValidNode(node)
       THEN /\ ret' = RetInt(Failure)
            /\ op' = Call("deleteNode", 0, 0)
            /\ UNCHANGED <<graphVars, crashed, histVars>>
       ELSE /\ edges' = edges \ KillList(node)
            /\ edgeMap' = [e \in DOMAIN edgeMap \ KillList(node) |-> edgeMap[e]]
            /\ nodes' = nodes
            /\ nodeMap' = Erase(nodeMap, node)
            /\ update
            /\ ret' = RetInt(node)
            /\ op' = Call("deleteNode", 0, Cardinality(KillList(node)))
            /\ UNCHANGED <<nodeId, edgeId, crashed, histVars>>

deleteNode(node) ==
    /\ ~crashed
    /\ IF ~isValidNode(node)
       THEN /\ ret' = RetInt(Failure)
            /\ op' = Call("deleteNode", 0, 0)
            /\ UNCHANGED <<graphVars, crashed, histVars>>
       ELSE /\ edges' = edges \ KillList(node)
            /\ edgeMap' = [e \in DOMAIN edgeMap \ KillList(node) |-> edgeMap[e]]
            /\ nodes' = nodes \ {node}
            /\ nodeMap' = Erase(nodeMap, node)
            /\ update
            /\ ret' = RetInt(node)
            /\ op' = Call("deleteNode", 0, Cardinality(KillList(node)))
            /\ UNCHANGED <<nodeId, edgeId, crashed, histVars>>


\* deleteNode(): deleteNode(*nodes.begin()); on an empty set the
\* dereference of end() yields an arbitrary int
deleteNodeFirst ==
    IF nodes # {} THEN deleteNode(Min(nodes))
    ELSE \E any \in NodeArgs : deleteNode(any)

\* ---------------------------------------------------------------- addEdge
\* variant: a self-loop is counted once, as an outgoing edge
addEdgeCountsLoopOnce(source, target) ==
    /\ ~crashed
    /\ IF ~isValidNode(source) \/ ~isValidNode(target)
       THEN /\ ret' = RetInt(Failure)
            /\ op' = Call("addEdge", 0, 0)
            /\ UNCHANGED <<graphVars, crashed, histVars>>
       ELSE /\ edgeId < MaxEdgeId
            /\ edgeId' = edgeId + 1
            /\ edges' = edges \cup {edgeId + 1}
            /\ edgeMap' = Put(edgeMap, edgeId + 1, NewEdge(source, target))
            /\ LET nm1 == [nodeMap EXCEPT ![source].outDegree = @ + 1]
                   nm2 == IF source = target THEN nm1
                          ELSE [nm1 EXCEPT ![target].inDegree = @ + 1]
                   nm3 == TouchBucket(nm2, source, target)
               IN  nodeMap' = [nm3 EXCEPT ![source].adjacent[target] =
                                              Append(@, edgeId + 1)]
            /\ update
            /\ ret' = RetInt(edgeId + 1)
            /\ op' = Call("addEdge", 0, 0)
            /\ issuedE' = issuedE \cup {edgeId + 1}
            /\ UNCHANGED <<nodes, nodeId, crashed, issuedN>>

addEdge(source, target) ==
    /\ ~crashed
    /\ IF ~isValidNode(source) \/ ~isValidNode(target)
       THEN /\ ret' = RetInt(Failure)
            /\ op' = Call("addEdge", 0, 0)
            /\ UNCHANGED <<graphVars, crashed, histVars>>
       ELSE /\ edgeId < MaxEdgeId
            /\ edgeId' = edgeId + 1
            /\ edges' = edges \cup {edgeId + 1}
            /\ edgeMap' = Put(edgeMap, edgeId + 1, NewEdge(source, target))
            /\ LET nm1 == [nodeMap EXCEPT ![source].outDegree = @ + 1]
                   nm2 == [nm1 EXCEPT ![target].inDegree = @ + 1]
                   nm3 == TouchBucket(nm2, source, target)
               IN  nodeMap' = [nm3 EXCEPT ![source].adjacent[target] =
                                              Append(@, edgeId + 1)]
            /\ update
            /\ ret' = RetInt(edgeId + 1)
            /\ op' = Call("addEdge", 0, 0)
            /\ issuedE' = issuedE \cup {edgeId + 1}
            /\ UNCHANGED <<nodes, nodeId, crashed, issuedN>>

\* ------------------------------------------------------------- clearEdges
\* foreach node in nodes: nodeMap[node].adjacent.clear()
ClearAdjacency(nm, live) ==
    [n \in DOMAIN nm \cup live |->
        IF n \in live
        THEN [Touch(nm, n)[n] EXCEPT !.adjacent = EmptyMap]
        ELSE nm[n]]

\* variant: clearEdges also restarts the edge id allocator
clearEdgesResetsId ==
    /\ ~crashed
    /\ nodeMap' = ClearAdjacency(nodeMap, nodes)
    /\ edges' = {}
    /\ edgeMap' = EmptyMap
    /\ edgeId' = Sentinel
    /\ update
    /\ ret' = RetVoid
    /\ op' = Call("clearEdges", Cardinality(edges), 0)
    /\ UNCHANGED <<nodes, nodeId, crashed, histVars>>

clearEdges ==
    /\ ~crashed
    /\ nodeMap' = ClearAdjacency(nodeMap, nodes)
    /\ edges' = {}
    /\ edgeMap' = EmptyMap
    /\ update
    /\ ret' = RetVoid
    /\ op' = Call("clearEdges", Cardinality(edges), 0)
    /\ UNCHANGED <<nodes, nodeId, edgeId, crashed, histVars>>

\* ------------------------------------------------------------- deleteEdge
\* The bucket is reached through operator[] (inserting the source node and
\* an empty bucket when absent).  When find() does not meet the edge the
\* code erases end(): the process is terminated, or it runs on with the
\* list as it was.
deleteEdge(edge) ==
    /\ ~crashed
    /\ IF ~isValidEdge(edge)
       THEN /\ ret' = RetInt(Failure)
            /\ op' = Call("deleteEdge", 0, 0)
            /\ UNCHANGED <<graphVars, crashed, histVars>>
       ELSE LET e   == edgeMap[edge]
                nm1 == TouchBucket(nodeMap, e.source, e.target)
                neighbors == nm1[e.source].adjacent[e.target]
                found == InList(neighbors, edge)
            IN  \/ /\ nodeMap' = [nm1 EXCEPT ![e.source].adjacent[e.target] =
                                                 EraseFirst(@, edge)]
                   /\ edges' = edges \ {edge}
                   /\ edgeMap' = Erase(edgeMap, edge)
                   /\ update
                   /\ ret' = RetInt(edge)
                   /\ op' = Call("deleteEdge", 0, IF found THEN 1 ELSE 0)
                   /\ UNCHANGED <<nodes, nodeId, edgeId, crashed, histVars>>
                \/ /\ ~found
                   /\ nodeMap' = nm1
                   /\ crashed' = TRUE
                   /\ ret' = RetNone
                   /\ op' = Call("deleteEdge", 0, 0)
                   /\ UNCHANGED <<nodes, edges, edgeMap, version, nodeId,
                                  edgeId, histVars>>

\* ------------------------------------------------------------------ clear
\* variant: clear leaves the edge id allocator where it was
clearKeepsEdgeId ==
    /\ ~crashed
    /\ nodes' = {}
    /\ nodeMap' = EmptyMap
    /\ edges' = {}
    /\ edgeMap' = EmptyMap
    /\ version' = Sentinel
    /\ nodeId' = Sentinel
    /\ ret' = RetVoid
    /\ op' = Call("clear", Cardinality(nodes), Cardinality(edges))
    /\ issuedN' = {}
    /\ issuedE' = {}
    /\ UNCHANGED <<edgeId, crashed>>

clear ==
    /\ ~crashed
    /\ nodes' = {}
    /\ nodeMap' = EmptyMap
    /\ edges' = {}
    /\ edgeMap' = EmptyMap
    /\ version' = Sentinel
    /\ nodeId' = Sentinel
    /\ edgeId' = Sentinel
    /\ ret' = RetVoid
    /\ op' = Call("clear", Cardinality(nodes), Cardinality(edges))
    /\ issuedN' = {}
    /\ issuedE' = {}
    /\ UNCHANGED crashed

\* -------------------------------------------------------------- accessors
\* hasEdge: nodeMap[source].adjacent.find(target) != end()
hasEdge(source, target) ==
    /\ ~crashed
    /\ nodeMap' = Touch(nodeMap, source)
    /\ ret' = RetBool(hasEdgeIn(nodeMap, source, target))
    /\ op' = Call("hasEdge", 0, 0)
    /\ UNCHANGED <<nodes, edges, edgeMap, version, nodeId, edgeId,
                   crashed, histVars>>

\* getEdges(source, target): nodeMap[source].adjacent[target]
getEdges(source, target) ==
    /\ ~crashed
    /\ nodeMap' = TouchBucket(nodeMap, source, target)
    /\ ret' = RetList(TouchBucket(nodeMap, source, target)[source].adjacent[target])
    /\ op' = Call("getEdges", 0, 0)
    /\ UNCHANGED <<nodes, edges, edgeMap, version, nodeId, edgeId,
                   crashed, histVars>>

\* getDegree: nodeMap[node].inDegree + nodeMap[node].outDegree
getDegree(node) ==
    /\ ~crashed
    /\ nodeMap' = Touch(nodeMap, node)
    /\ ret' = RetInt(Touch(nodeMap, node)[node].inDegree
                     + Touch(nodeMap, node)[node].outDegree)
    /\ op' = Call("getDegree", 0, 0)
    /\ UNCHANGED <<nodes, edges, edgeMap, version, nodeId, edgeId,
                   crashed, histVars>>

\* ------------------------------------------- addNode(position / label)
\* addNode(position): id = addNode(); setPosition(id, position)
addNodeAt(p) ==
    /\ ~crashed
    /\ nodeId < MaxNodeId
    /\ version + 1 < MaxVersion
    /\ nodeMap' = Put(nodeMap, nodeId + 1, [DefaultNode EXCEPT !.position = p])
    /\ nodeId' = nodeId + 1
    /\ nodes' = nodes \cup {nodeId + 1}
    /\ version' = version + 2
    /\ op' = Call("addNodeAt", 0, 0)
    /\ ret' = RetInt(nodeId + 1)
    /\ issuedN' = issuedN \cup {nodeId + 1}
    /\ UNCHANGED <<edges, edgeMap, edgeId, crashed, issuedE>>

\* addNode(label): id = addNode(); setNodeLabel(id, label)
addNodeLabelled(l) ==
    /\ ~crashed
    /\ nodeId < MaxNodeId
    /\ version + 1 < MaxVersion
    /\ \E p \in RandVals :
          nodeMap' = Put(nodeMap, nodeId + 1,
                         [DefaultNode EXCEPT !.position = p, !.label = l])
    /\ nodeId' = nodeId + 1
    /\ nodes' = nodes \cup {nodeId + 1}
    /\ version' = version + 2
    /\ op' = Call("addNodeLabelled", 0, 0)
    /\ ret' = RetInt(nodeId + 1)
    /\ issuedN' = issuedN \cup {nodeId + 1}
    /\ UNCHANGED <<edges, edgeMap, edgeId, crashed, issuedE>>

\* ---------------------------------------------------------------- setters
\* nodeMap[node].<field> = value, with or without update()
SetField(name, nm, bump) ==
    /\ ~crashed
    /\ nodeMap' = nm
    /\ IF bump THEN update ELSE version' = version
    /\ op' = Call(name, 0, 0)
    /\ ret' = RetVoid
    /\ UNCHANGED <<nodes, edges, edgeMap, nodeId, edgeId, crashed, histVars>>

setPosition(node, p) ==
    SetField("setPosition",
             [Touch(nodeMap, node) EXCEPT ![node].position = p], TRUE)

setNodeLabel(node, l) ==
    SetField("setNodeLabel",
             [Touch(nodeMap, node) EXCEPT ![node].label = l], TRUE)

setSize(node, sz) ==
    SetField("setSize",
             [Touch(nodeMap, node) EXCEPT ![node].size = sz], TRUE)

setColor(node, m) ==
    SetField("setColor",
             [Touch(nodeMap, node) EXCEPT ![node].material = m], TRUE)

\* nodeMap[node].position += delta; update()
updatePosition(node, delta) ==
    /\ Touch(nodeMap, node)[node].position + delta \in PosVals
    /\ SetField("updatePosition",
                [Touch(nodeMap, node) EXCEPT ![node].position = @ + delta], TRUE)

\* variant: updateVelocity ends with update() like the other setters
updateVelocityBumps(node, delta) ==
    /\ Touch(nodeMap, node)[node].velocity + delta \in VelVals
    /\ SetField("updateVelocity",
                [Touch(nodeMap, node) EXCEPT ![node].velocity = @ + delta], TRUE)

\* nodeMap[node].velocity += delta; no update()
updateVelocity(node, delta) ==
    /\ Touch(nodeMap, node)[node].velocity + delta \in VelVals
    /\ SetField("updateVelocity",
                [Touch(nodeMap, node) EXCEPT ![node].velocity = @ + delta], FALSE)

\* foreach node in nodes: position = rand() % (2 * radius) - radius
randomizePositions(radius) ==
    \E f \in [nodes -> (-radius) .. (radius - 1)] :
        /\ ~crashed
        /\ nodeMap' = [n \in DOMAIN nodeMap \cup nodes |->
                          IF n \in nodes
                          THEN [Touch(nodeMap, n)[n] EXCEPT !.position = f[n]]
                          ELSE nodeMap[n]]
        /\ op' = Call("randomizePositions", 0, 0)
        /\ ret' = RetVoid
        /\ UNCHANGED <<nodes, edges, edgeMap, version, nodeId, edgeId,
                       crashed, histVars>>

\* foreach node in nodes: velocity = (0, 0, 0)
resetVelocities ==
    /\ ~crashed
    /\ nodeMap' = [n \in DOMAIN nodeMap \cup nodes |->
                      IF n \in nodes
                      THEN [Touch(nodeMap, n)[n] EXCEPT !.velocity = 0]
                      ELSE nodeMap[n]]
    /\ op' = Call("resetVelocities", 0, 0)
    /\ ret' = RetVoid
    /\ UNCHANGED <<nodes, edges, edgeMap, version, nodeId, edgeId,
                   crashed, histVars>>

\* ---------------------------------------------------------------- toBoost
\* Edge(): the record operator[] inserts for an edge id edgeMap does not
\* hold.  Its endpoints are whatever the default constructor leaves there.
DefaultEdges == {NewEdge(source, target) : source \in NodeArgs, target \in NodeArgs}

\* edgeMap after the reads edgeMap[0] .. edgeMap[getEdgeCount() - 1]
ToBoostEdgeMaps ==
    LET missing == (0 .. getEdgeCount - 1) \ DOMAIN edgeMap
    IN  {[e \in DOMAIN edgeMap \cup missing |->
             IF e \in DOMAIN edgeMap THEN edgeMap[e] ELSE f[e]] :
         f \in [missing -> DefaultEdges]}

\* The graph toBoost() returns when the reads left edge map em.  The vertex
\* loop runs while node > getNodeCount() and so adds nothing; add_edge grows
\* the vertex set to hold both endpoints.
BoostGraphOf(em) ==
    LET pairs == [i \in 1 .. getEdgeCount |-> <<em[i - 1].source, em[i - 1].target>>]
        ends == {p[1] : p \in Range(pairs)} \cup {p[2] : p \in Range(pairs)}
    IN  [vertices |-> IF ends = {} THEN 0 ELSE Max(ends) + 1, edges |-> pairs]

toBoost ==
    /\ ~crashed
    /\ \E em \in ToBoostEdgeMaps :
          /\ edgeMap' = em
          /\ g' = BoostGraphOf(em)
          /\ op' = Call("toBoost", BoostGraphOf(em).vertices, getEdgeCount)
    /\ ret' = RetVoid
    /\ UNCHANGED <<nodes, nodeMap, edges, version, nodeId, edgeId, crashed, histVars>>

\* -------------------------------------------------------------- analytics
\* getBetweennessCentrality, getShortestPath, getSpanningTree: lock, build
\* the BoostGraph, size the result by getNodeCount(), return it at once when
\* that is 0, else run the algorithm, unlock and return.  The algorithm
\* writes one entry per vertex of g: past the end of the result when g has
\* more vertices than the graph has nodes, and then the process is
\* terminated or runs on; so it is when g lacks a vertex in roots, where the
\* algorithm is told to start.
analytics(name, roots) ==
    /\ ~crashed
    /\ mutex = Free
    /\ \E em \in ToBoostEdgeMaps :
          LET gr == BoostGraphOf(em)
          IN  /\ edgeMap' = em
              /\ g' = gr
              /\ op' = Call(name, gr.vertices, getEdgeCount)
              /\ IF getNodeCount = 0
                 THEN /\ ret' = RetList(<<>>)
                      /\ mutex' = Min(Threads)
                      /\ crashed' = crashed
                 ELSE \/ /\ ret' = RetList([i \in 1 .. getNodeCount |-> 0])
                         /\ mutex' = Free
                         /\ crashed' = crashed
                      \/ /\ \/ gr.vertices > getNodeCount
                            \/ \E r \in roots : r >= gr.vertices
                         /\ ret' = RetNone
                         /\ mutex' = Min(Threads)
                         /\ crashed' = TRUE
    /\ UNCHANGED <<nodes, nodeMap, edges, version, nodeId, edgeId, histVars>>

getBetweennessCentrality == analytics("getBetweennessCentrality", {})
\* the root is application->getPreviousNode()
getShortestPath == \E root \in NodeArgs : analytics("getShortestPath", {root})
getSpanningTree == analytics("getSpanningTree", {})

AnalyticsCalls ==
    {"getBetweennessCentrality", "getShortestPath", "getSpanningTree",
     "setComponents"}

\* ---------------------------------------------------------- setComponents
\* the vertices joined to a vertex of S by edges of gr, in either direction
RECURSIVE Reach(_, _)
Reach(gr, S) ==
    LET T == S \cup {p[2] : p \in {q \in Range(gr.edges) : q[1] \in S}}
               \cup {p[1] : p \in {q \in Range(gr.edges) : q[2] \in S}}
    IN  IF T = S THEN S ELSE Reach(gr, T)

\* connected_components(g, c): one component id per vertex of g
Components(gr) == [v \in 0 .. gr.vertices - 1 |-> Min(Reach(gr, {v}))]

\* values an int read past the end of a vector can hold
AnyComponent == 0 .. MaxNodeId

\* c has getNodeCount() entries, all 0, of which connected_components
\* overwrites one per vertex of g.  &c[0] on an empty c, a write past the
\* end of c and a read c[node] past its end are undefined: the process is
\* terminated, or runs on with some int for what it read.
setComponents ==
    /\ ~crashed
    /\ mutex = Free
    /\ \E em \in ToBoostEdgeMaps :
          LET gr == BoostGraphOf(em)
              n == getNodeCount
              c == [v \in 0 .. n - 1 |->
                       IF v < gr.vertices THEN Components(gr)[v] ELSE 0]
              past == {node \in nodes : node >= n}
          IN  /\ edgeMap' = em
              /\ g' = gr
              /\ op' = Call("setComponents",
                            IF nodes = {} THEN Sentinel ELSE Max(nodes), n)
              /\ \/ /\ \E junk \in [past -> AnyComponent] :
                            nodeMap' = [x \in DOMAIN nodeMap \cup nodes |->
                                IF x \in nodes
                                THEN [Touch(nodeMap, x)[x] EXCEPT !.component =
                                         IF x \in past THEN junk[x] ELSE c[x]]
                                ELSE nodeMap[x]]
                    /\ ret' = RetVoid
                    /\ mutex' = Free
                    /\ crashed' = crashed
                 \/ /\ n = 0 \/ gr.vertices > n \/ past # {}
                    /\ nodeMap' = nodeMap
                    /\ ret' = RetNone
                    /\ mutex' = Min(Threads)
                    /\ crashed' = TRUE
    /\ UNCHANGED <<nodes, edges, version, nodeId, edgeId, histVars>>

\* ---------------------------------------------------------------- actions
\* Each call of the public interface, its arguments drawn from the ids a
\* caller can pass.  The tally variables belong to the caller of SpecNodes.
NoTally == UNCHANGED tallyVars

\* A call run by one thread from entry to return with no other thread inside
\* the graph.  One that takes the mutex finds it free and leaves it free.
Locks == mutex = Free /\ UNCHANGED <<mutex, threadVars, g>>

\* a call that never touches the mutex
NoLock == UNCHANGED <<mutex, threadVars, g>>

AddNode == addNode /\ NoTally /\ Locks
AddNodeAt == \E p \in PosVals : addNodeAt(p) /\ NoTally /\ Locks
AddNodeLabelled == \E l \in FieldVals : addNodeLabelled(l) /\ NoTally /\ Locks
DeleteNode == \E node \in NodeArgs : deleteNode(node) /\ NoTally /\ Locks
DeleteNodeFirst == deleteNodeFirst /\ NoTally /\ Locks
AddEdge == \E source \in NodeArgs, target \in NodeArgs :
               addEdge(source, target) /\ NoTally /\ Locks
DeleteEdge == \E edge \in EdgeArgs : deleteEdge(edge) /\ NoTally /\ Locks
ClearEdges == clearEdges /\ NoTally /\ Locks
Clear == clear /\ NoTally /\ Locks
HasEdge == \E source \in QueryArgs, target \in QueryArgs :
               hasEdge(source, target) /\ NoTally /\ NoLock
GetEdges == \E source \in QueryArgs, target \in QueryArgs :
                getEdges(source, target) /\ NoTally /\ NoLock
GetDegree == \E node \in QueryArgs : getDegree(node) /\ NoTally /\ NoLock
SetPosition == \E node \in QueryArgs, p \in PosVals : setPosition(node, p) /\ NoTally /\ NoLock
SetNodeLabel == \E node \in QueryArgs, l \in FieldVals : setNodeLabel(node, l) /\ NoTally /\ NoLock
SetSize == \E node \in QueryArgs, sz \in FieldVals : setSize(node, sz) /\ NoTally /\ NoLock
SetColor == \E node \in QueryArgs, m \in FieldVals : setColor(node, m) /\ NoTally /\ NoLock
UpdatePosition == \E node \in QueryArgs, delta \in {-1, 1} :
                      updatePosition(node, delta) /\ NoTally /\ NoLock
UpdateVelocity == \E node \in QueryArgs, delta \in {-1, 1} :
                      updateVelocity(node, delta) /\ NoTally /\ NoLock
RandomizePositions == \E radius \in Radii : randomizePositions(radius) /\ NoTally /\ Locks
ResetVelocities == resetVelocities /\ NoTally /\ Locks
ToBoost == toBoost /\ NoTally /\ UNCHANGED <<mutex, threadVars>>
GetBetweennessCentrality == getBetweennessCentrality /\ NoTally /\ UNCHANGED threadVars
GetShortestPath == getShortestPath /\ NoTally /\ UNCHANGED threadVars
GetSpanningTree == getSpanningTree /\ NoTally /\ UNCHANGED threadVars
SetComponents == setComponents /\ NoTally /\ UNCHANGED threadVars

\* ---------------------------------------------------------------- threads
\* Calls of several threads interleaved.  A thread moves through its call in
\* steps: lock (mutex.lock()), crit (the statements up to mutex.unlock()),
\* read and write (the load and the store of version++ in update()), ret
\* (the return statement); access and first are statements that touch the
\* containers without the mutex.  local[t] holds the call's name, its
\* arguments a and b, the version update() loaded (v) and what the critical
\* section produced (id).
Busy == {t \in Threads : pc[t] \in {"first", "lock", "crit", "read", "write"}}
Pending(name) == {t \in Busy : local[t].name = name /\ pc[t] \in {"first", "lock", "crit"}}

Enter(t, name, a, b, where) ==
    /\ ~crashed
    /\ pc[t] = "idle"
    /\ pc' = [pc EXCEPT ![t] = where]
    /\ local' = [local EXCEPT ![t] =
                     [name |-> name, a |-> a, b |-> b, v |-> 0, id |-> 0]]
    /\ UNCHANGED <<graphVars, crashed, op, ret, histVars, tallyVars, mutex, done, g>>

\* room under the bounds for one more call that ends in update()
Room == version + Cardinality(Busy) < MaxVersion

EnterAddNode ==
    \E t \in Threads :
        /\ Room
        /\ nodeId + Cardinality(Pending("addNode")) < MaxNodeId
        /\ Enter(t, "addNode", 0, 0, "lock")

EnterAddEdge ==
    \E t \in Threads, source \in QueryArgs, target \in QueryArgs :
        /\ Room
        /\ edgeId + Cardinality(Pending("addEdge")) < MaxEdgeId
        /\ Enter(t, "addEdge", source, target, "lock")

EnterDeleteNode ==
    \E t \in Threads, node \in QueryArgs :
        Room /\ Enter(t, "deleteNode", node, 0, "lock")

\* deleteNode(): the argument is read from the live set first
EnterDeleteNodeFirst ==
    \E t \in Threads : Room /\ Enter(t, "deleteNode", 0, 0, "first")

EnterDeleteEdge ==
    \E t \in Threads, edge \in EdgeArgs :
        Room /\ Enter(t, "deleteEdge", edge, 0, "lock")

EnterHasEdge ==
    \E t \in Threads, source \in QueryArgs, target \in QueryArgs :
        Enter(t, "hasEdge", source, target, "access")

EnterGetEdges ==
    \E t \in Threads, source \in QueryArgs, target \in QueryArgs :
        Enter(t, "getEdges", source, target, "access")

EnterAnalytics ==
    \E t \in Threads,
       name \in {"getBetweennessCentrality", "getShortestPath", "getSpanningTree"} :
        Enter(t, name, 0, 0, "lock")

\* what a step of thread t leaves alone besides the graph
Quiet == UNCHANGED <<op, ret, histVars, tallyVars, done, g>>

\* mutex.lock()
Lock ==
    \E t \in Threads :
        /\ ~crashed
        /\ pc[t] = "lock"
        /\ mutex = Free
        /\ mutex' = t
        /\ pc' = [pc EXCEPT ![t] = "crit"]
        /\ UNCHANGED <<graphVars, crashed, local>>
        /\ Quiet

\* *nodes.begin() in deleteNode(), before deleteNode(int) locks
FirstNode ==
    \E t \in Threads :
        /\ ~crashed
        /\ pc[t] = "first"
        /\ \E node \in (IF nodes # {} THEN {Min(nodes)} ELSE NodeArgs) :
              local' = [local EXCEPT ![t].a = node]
        /\ pc' = [pc EXCEPT ![t] = "lock"]
        /\ UNCHANGED <<graphVars, crashed, mutex>>
        /\ Quiet

\* thread t stands in the critical section of call name
InCrit(t, name) == ~crashed /\ pc[t] = "crit" /\ local[t].name = name

\* mutex.unlock() and on to where; id is what the section produced
Leave(t, where, id) ==
    /\ mutex' = Free
    /\ pc' = [pc EXCEPT ![t] = where]
    /\ local' = [local EXCEPT ![t].id = id]

\* addNode, lines 309-316
AddNodeBody ==
    \E t \in Threads :
        /\ InCrit(t, "addNode")
        /\ \E p \in RandVals :
              nodeMap' = Put(nodeMap, nodeId + 1, [DefaultNode EXCEPT !.position = p])
        /\ nodeId' = nodeId + 1
        /\ nodes' = nodes \cup {nodeId + 1}
        /\ Leave(t, "read", nodeId + 1)
        /\ UNCHANGED <<edges, edgeMap, edgeId, version, crashed>>
        /\ Quiet

\* addEdge, lines 180-195
AddEdgeBody ==
    \E t \in Threads :
        LET source == local[t].a
            target == local[t].b
        IN  /\ InCrit(t, "addEdge")
            /\ IF ~isValidNode(source) \/ ~isValidNode(target)
               THEN /\ Leave(t, "ret", Failure)
                    /\ UNCHANGED <<graphVars, crashed>>
               ELSE /\ edgeId' = edgeId + 1
                    /\ edges' = edges \cup {edgeId + 1}
                    /\ edgeMap' = Put(edgeMap, edgeId + 1, NewEdge(source, target))
                    /\ LET nm1 == [nodeMap EXCEPT ![source].outDegree = @ + 1]
                           nm2 == [nm1 EXCEPT ![target].inDegree = @ + 1]
                           nm3 == TouchBucket(nm2, source, target)
                       IN  nodeMap' = [nm3 EXCEPT ![source].adjacent[target] =
                                                      Append(@, edgeId + 1)]
                    /\ Leave(t, "read", edgeId + 1)
                    /\ UNCHANGED <<nodes, nodeId, version, crashed>>
            /\ Quiet

\* deleteNode(int), lines 345-372
DeleteNodeBody ==
    \E t \in Threads :
        LET node == local[t].a
        IN  /\ InCrit(t, "deleteNode")
            /\ IF ~isValidNode(node)
               THEN /\ Leave(t, "ret", Failure)
                    /\ UNCHANGED <<graphVars, crashed>>
               ELSE /\ edges' = edges \ KillList(node)
                    /\ edgeMap' = [e \in DOMAIN edgeMap \ KillList(node) |-> edgeMap[e]]
                    /\ nodes' = nodes \ {node}
                    /\ nodeMap' = Erase(nodeMap, node)
                    /\ Leave(t, "read", node)
                    /\ UNCHANGED <<nodeId, edgeId, version, crashed>>
            /\ Quiet

\* deleteEdge, lines 221-234; erase(end()) as in deleteEdge above
DeleteEdgeBody ==
    \E t \in Threads :
        LET edge == local[t].a
        IN  /\ InCrit(t, "deleteEdge")
            /\ IF ~isValidEdge(edge)
               THEN /\ Leave(t, "ret", Failure)
                    /\ UNCHANGED <<graphVars, crashed>>
               ELSE LET e   == edgeMap[edge]
                        nm1 == TouchBucket(nodeMap, e.source, e.target)
                        found == InList(nm1[e.source].adjacent[e.target], edge)
                    IN  \/ /\ nodeMap' = [nm1 EXCEPT ![e.source].adjacent[e.target] =
                                                         EraseFirst(@, edge)]
                           /\ edges' = edges \ {edge}
                           /\ edgeMap' = Erase(edgeMap, edge)
                           /\ Leave(t, "read", edge)
                           /\ UNCHANGED <<nodes, nodeId, edgeId, version, crashed>>
                        \/ /\ ~found
                           /\ nodeMap' = nm1
                           /\ crashed' = TRUE
                           /\ UNCHANGED <<nodes, edges, edgeMap, version, nodeId,
                                          edgeId, mutex, pc, local>>
            /\ Quiet

\* getBetweennessCentrality, getShortestPath, getSpanningTree between
\* mutex.lock() and the return statement: the early return leaves the
\* mutex locked
AnalyticsBody ==
    \E t \in Threads, em \in ToBoostEdgeMaps, root \in NodeArgs :
        LET gr == BoostGraphOf(em)
        IN  /\ ~crashed
            /\ pc[t] = "crit"
            /\ local[t].name \in AnalyticsCalls
            /\ edgeMap' = em
            /\ g' = gr
            /\ IF getNodeCount = 0
               THEN /\ pc' = [pc EXCEPT ![t] = "ret"]
                    /\ UNCHANGED <<mutex, local, crashed>>
               ELSE \/ /\ Leave(t, "ret", 0)
                       /\ crashed' = crashed
                    \/ /\ \/ gr.vertices > getNodeCount
                          \/ local[t].name = "getShortestPath" /\ root >= gr.vertices
                       /\ crashed' = TRUE
                       /\ UNCHANGED <<mutex, pc, local>>
            /\ UNCHANGED <<nodes, nodeMap, edges, version, nodeId, edgeId,
                           op, ret, histVars, tallyVars, done>>

\* update(): version++ is a load ...
UpdateRead ==
    \E t \in Threads :
        /\ ~crashed
        /\ pc[t] = "read"
        /\ local' = [local EXCEPT ![t].v = version]
        /\ pc' = [pc EXCEPT ![t] = "write"]
        /\ UNCHANGED <<graphVars, crashed, mutex>>
        /\ Quiet

\* ... and a store
UpdateWrite ==
    \E t \in Threads :
        /\ ~crashed
        /\ pc[t] = "write"
        /\ version' = local[t].v + 1
        /\ pc' = [pc EXCEPT ![t] = "ret"]
        /\ local' = [local EXCEPT ![t].v = 0]
        /\ UNCHANGED <<nodes, nodeMap, edges, edgeMap, nodeId, edgeId,
                       crashed, mutex>>
        /\ Quiet

\* what the return statement of the call of thread t yields: addNode returns
\* nodeId and addEdge edgeId as they are now; the deletes their argument
Returned(t) ==
    IF local[t].id = Failure THEN Failure
    ELSE IF local[t].name = "addNode" THEN nodeId
    ELSE IF local[t].name = "addEdge" THEN edgeId
    ELSE local[t].id

Return ==
    \E t \in Threads :
        /\ ~crashed
        /\ pc[t] = "ret"
        /\ done' = IF local[t].name \notin AnalyticsCalls /\ Returned(t) # Failure
                   THEN done + 1 ELSE done
        /\ pc' = [pc EXCEPT ![t] = "idle"]
        /\ local' = [local EXCEPT ![t] = NoLocals]
        /\ UNCHANGED <<graphVars, crashed, op, ret, histVars, tallyVars, mutex, g>>

\* hasEdge, run without the mutex
HasEdgeAccess ==
    \E t \in Threads :
        /\ ~crashed
        /\ pc[t] = "access"
        /\ local[t].name = "hasEdge"
        /\ nodeMap' = Touch(nodeMap, local[t].a)
        /\ pc' = [pc EXCEPT ![t] = "idle"]
        /\ local' = [local EXCEPT ![t] = NoLocals]
        /\ UNCHANGED <<nodes, edges, edgeMap, version, nodeId, edgeId, crashed,
                       op, ret, histVars, tallyVars, mutex, done, g>>

\* getEdges(source, target), run without the mutex
GetEdgesAccess ==
    \E t \in Threads :
        /\ ~crashed
        /\ pc[t] = "access"
        /\ local[t].name = "getEdges"
        /\ nodeMap' = TouchBucket(nodeMap, local[t].a, local[t].b)
        /\ pc' = [pc EXCEPT ![t] = "idle"]
        /\ local' = [local EXCEPT ![t] = NoLocals]
        /\ UNCHANGED <<nodes, edges, edgeMap, version, nodeId, edgeId, crashed,
                       op, ret, histVars, tallyVars, mutex, done, g>>

\* A caller that issues only addNode and deleteNode calls and keeps a tally
\* of its calls and of what they returned.
TallyAdd ==
    /\ adds' = adds + 1
    /\ dels' = dels
    /\ deletedN' = deletedN \ {ret'.val}

TallyDelete ==
    /\ adds' = adds
    /\ dels' = IF ret'.val # Failure THEN dels + 1 ELSE dels
    /\ deletedN' = IF ret'.val # Failure THEN deletedN \cup {ret'.val} ELSE deletedN

TallyAddNode == addNode /\ TallyAdd /\ Locks
TallyAddNodeAt == \E p \in PosVals : addNodeAt(p) /\ TallyAdd /\ Locks
TallyAddNodeLabelled == \E l \in FieldVals : addNodeLabelled(l) /\ TallyAdd /\ Locks
TallyDeleteNode == \E node \in NodeArgs : deleteNode(node) /\ TallyDelete /\ Locks
TallyDeleteNodeFirst == deleteNodeFirst /\ TallyDelete /\ Locks

\* --------------------------------------------------------- specifications
\* addNode and deleteNode calls only, tallied
NextNodes == \/ TallyAddNode \/ TallyAddNodeAt \/ TallyAddNodeLabelled
             \/ TallyDeleteNode \/ TallyDeleteNodeFirst
SpecNodes == Init /\ [][NextNodes]_vars

\* the structural mutators alone
NextMut == AddNode \/ AddEdge \/ DeleteEdge \/ DeleteNode \/ ClearEdges
SpecMut == Init /\ [][NextMut]_vars

\* the structural mutators, clear and the accessors
Next == \/ AddNode \/ DeleteNode \/ DeleteNodeFirst
        \/ AddEdge \/ DeleteEdge \/ ClearEdges \/ Clear
        \/ HasEdge \/ GetEdges \/ GetDegree
Spec == Init /\ [][Next]_vars

\* the structural mutators, clear and one accessor
NextCore == \/ AddNode \/ DeleteNode \/ DeleteNodeFirst
            \/ AddEdge \/ DeleteEdge \/ ClearEdges \/ Clear
            \/ GetDegree
SpecCore == Init /\ [][NextCore]_vars

\* the structural mutators and the velocity update of the layout thread
NextVelocity == \/ AddNode \/ DeleteNode \/ AddEdge \/ DeleteEdge
                \/ ClearEdges \/ UpdateVelocity
SpecVelocity == Init /\ [][NextVelocity]_vars

\* the operations that touch what a renderer draws
NextVisual == \/ AddNode \/ AddNodeAt \/ AddNodeLabelled \/ DeleteNode
              \/ AddEdge \/ DeleteEdge \/ Clear
              \/ SetPosition \/ SetNodeLabel \/ SetSize \/ SetColor
              \/ UpdatePosition \/ UpdateVelocity
              \/ RandomizePositions \/ ResetVelocities
SpecVisual == Init /\ [][NextVisual]_vars

\* the structural mutators, the algorithm adapter and the analytics
NextAnalytics == \/ AddNode \/ AddEdge \/ DeleteNode \/ DeleteEdge
                 \/ ToBoost \/ GetBetweennessCentrality \/ GetShortestPath
                 \/ GetSpanningTree \/ SetComponents
SpecAnalytics == Init /\ [][NextAnalytics]_vars

\* threads that add and delete
NextThreads == \/ EnterAddNode \/ EnterAddEdge \/ EnterDeleteNode \/ EnterDeleteEdge
               \/ Lock \/ AddNodeBody \/ AddEdgeBody \/ DeleteNodeBody
               \/ DeleteEdgeBody \/ UpdateRead \/ UpdateWrite \/ Return
SpecThreads == Init /\ [][NextThreads]_vars

\* threads that add, delete the first node and query
NextGuard == \/ EnterAddNode \/ EnterDeleteNodeFirst \/ EnterHasEdge
             \/ EnterGetEdges
             \/ Lock \/ FirstNode \/ AddNodeBody \/ DeleteNodeBody
             \/ UpdateRead \/ UpdateWrite \/ Return
             \/ HasEdgeAccess \/ GetEdgesAccess
SpecGuard == Init /\ [][NextGuard]_vars

\* threads that add, delete and analyse
NextLocks == \/ EnterAddNode \/ EnterAddEdge \/ EnterDeleteNode \/ EnterAnalytics
             \/ Lock \/ AddNodeBody \/ AddEdgeBody \/ DeleteNodeBody
             \/ AnalyticsBody \/ UpdateRead \/ UpdateWrite \/ Return
SpecLocks == Init /\ [][NextLocks]_vars

TypeOK ==
    /\ nodes \subseteq DOMAIN nodeMap
    /\ edges \subseteq DOMAIN edgeMap

\* ================================================================ claims
Succeeded(r) == r.kind = "int" /\ r.val # Failure

\* C1: after any sequence of addNode and deleteNode calls on a fresh graph,
\* getNodeCount() is the number of addNode calls minus the number of
\* deleteNode calls that did not return the failure value, and every id in
\* getNodes() was returned by addNode and has not been deleted since.
C1_NodeCountIsAddsMinusDeletes ==
    /\ getNodeCount = adds - dels
    /\ nodes \subseteq issuedN
    /\ nodes \cap deletedN = {}

C1_Witness ==
    /\ adds >= 2
    /\ dels >= 1
    /\ nodes # {}
    /\ op.name = "deleteNode"
    /\ ret = RetInt(Failure)

\* C2 (as claimed): hasEdge(source, target) is true right after a successful
\* addEdge(source, target) between live nodes, and false right after the
\* deleteEdge of an edge that was the only one from source to target.
C2_HasEdgeFollowsAddAndDelete ==
    [][ /\ (/\ op'.name = "addEdge"
            /\ Succeeded(ret')
            /\ edgeMap'[ret'.val].source \in nodes
            /\ edgeMap'[ret'.val].target \in nodes)
           => hasEdgeIn(nodeMap', edgeMap'[ret'.val].source, edgeMap'[ret'.val].target)
        /\ \A e \in edges :
             (/\ op'.name = "deleteEdge"
              /\ ret' = RetInt(e)
              /\ edgeMap[e].source \in nodes /\ edgeMap[e].target \in nodes
              /\ \A e2 \in edges \ {e} :
                    ~(/\ edgeMap[e2].source = edgeMap[e].source
                      /\ edgeMap[e2].target = edgeMap[e].target))
             => ~hasEdgeIn(nodeMap', edgeMap[e].source, edgeMap[e].target)
      ]_vars

\* C3: a successful deleteNode(n) of a live node n removes from the edge
\* store exactly the edges whose source or target is n: getEdgeCount()
\* drops by their number and every other edge stays live with the same
\* endpoints.
C3_DeleteNodeRemovesIncidentEdges ==
    [][ \A n \in nodes :
          (op'.name = "deleteNode" /\ ret' = RetInt(n))
          => LET incident == {e \in edges : edgeMap[e].source = n
                                            \/ edgeMap[e].target = n}
             IN  /\ edges' = edges \ incident
                 /\ Cardinality(edges') = Cardinality(edges) - Cardinality(incident)
                 /\ \A e \in edges \ incident :
                       /\ e \in DOMAIN edgeMap'
                       /\ edgeMap'[e].source = edgeMap[e].source
                       /\ edgeMap'[e].target = edgeMap[e].target
                 /\ \A e \in incident : e \notin DOMAIN edgeMap'
      ]_vars

\* a deleteNode that removed an edge pointing at the node and kept another
C3_Witness ==
    /\ op.name = "deleteNode"
    /\ Succeeded(ret)
    /\ op.b >= 1
    /\ edges # {}
    /\ ret.val \in issuedN
    /\ ret.val \notin DOMAIN nodeMap

\* C4 (as claimed): for every live node, inDegree is the number of edges in
\* the edge store whose target is the node and outDegree the number whose
\* source is the node.
C4_DegreesCountEdges ==
    \A n \in nodes :
        /\ nodeMap[n].inDegree = Cardinality({e \in edges : edgeMap[e].target = n})
        /\ nodeMap[n].outDegree = Cardinality({e \in edges : edgeMap[e].source = n})

\* C5 (as claimed): the source and the target of every edge in the edge
\* store are members of the live node set getNodes().
C5_EndpointsAreLive ==
    \A e \in edges : edgeMap[e].source \in nodes /\ edgeMap[e].target \in nodes

\* C6: an id returned by addNode (addEdge) is greater than every node id
\* (edge id) issued since the last clear(), deleted or not, and the id
\* counters never decrease except in clear().
C6_IdsIncrease ==
    [][ /\ (op'.name \in {"addNode", "addNodeAt", "addNodeLabelled"} /\ Succeeded(ret'))
           => \A i \in issuedN : ret'.val > i
        /\ (op'.name = "addEdge" /\ Succeeded(ret'))
           => \A i \in issuedE : ret'.val > i
        /\ op'.name # "clear" => nodeId' >= nodeId /\ edgeId' >= edgeId
      ]_vars

\* an edge id issued after clearEdges emptied the edge store
C6_Witness ==
    /\ op.name = "addEdge"
    /\ Succeeded(ret)
    /\ ret.val >= 1
    /\ edges = {ret.val}

\* C7: after clear() the graph has no nodes, no edges and the initial
\* version, and is in every field the freshly constructed graph, so the
\* calls that follow return and do what they would on a fresh graph.
C7_ClearGivesFreshGraph ==
    op.name = "clear" =>
        /\ getNodeCount = 0
        /\ getEdgeCount = 0
        /\ version = Sentinel
        /\ nodeMap = EmptyMap
        /\ edgeMap = EmptyMap
        /\ nodeId = Sentinel
        /\ edgeId = Sentinel

\* a clear() of a graph that held nodes and edges
C7_Witness ==
    /\ op.name = "clear"
    /\ op.a >= 1
    /\ op.b >= 1

\* C8 (as claimed): addEdge with a non-live endpoint, deleteEdge of a
\* non-live edge and deleteNode of a non-live node return -1 and change
\* nothing in the graph.  A call of the three that does not return -1
\* names its argument in what it returns (the node, the edge, or the new
\* edge whose record holds the two endpoints), so the claim reads: a call
\* either returns -1 with the graph unchanged, or its arguments were live.
C8_RejectedCallsChangeNothing ==
    [][ /\ op'.name = "addEdge" =>
              \/ ret' = RetInt(Failure) /\ graphVars' = graphVars
              \/ /\ Succeeded(ret')
                 /\ edgeMap'[ret'.val].source \in nodes
                 /\ edgeMap'[ret'.val].target \in nodes
        /\ op'.name = "deleteEdge" =>
              \/ ret' = RetInt(Failure) /\ graphVars' = graphVars
              \/ Succeeded(ret') /\ ret'.val \in edges
        /\ op'.name = "deleteNode" =>
              \/ ret' = RetInt(Failure) /\ graphVars' = graphVars
              \/ Succeeded(ret') /\ ret'.val \in nodes
      ]_vars

\* C9: each successful addNode(), addEdge, deleteEdge, deleteNode(id) and
\* clearEdges raises getVersion() by exactly 1, whatever deleteNode
\* removes, and updateVelocity leaves it unchanged.
C9_OneBumpPerMutation ==
    [][ /\ (/\ op'.name \in {"addNode", "addEdge", "deleteEdge", "deleteNode"}
            /\ Succeeded(ret'))
           => version' = version + 1
        /\ op'.name = "clearEdges" => version' = version + 1
        /\ op'.name = "updateVelocity" => version' = version
      ]_vars

\* a deleteNode that took two edges with it
C9_Witness ==
    /\ op.name = "deleteNode"
    /\ Succeeded(ret)
    /\ op.b >= 2
    /\ version >= 3

\* what a renderer draws: the live sets and the visual fields of live nodes
Contents ==
    <<nodes, edges,
      [n \in nodes \cap DOMAIN nodeMap |->
          <<nodeMap[n].position, nodeMap[n].label,
            nodeMap[n].size, nodeMap[n].material>>]>>

\* C10 (as claimed): apart from clear(), an operation that changes the live
\* node set, the live edge set or a live node's position, label, size or
\* material leaves getVersion() greater than before, and two successive
\* observations of one version are observations of the same contents.
C10_VersionDetectsChange ==
    [][ /\ (op'.name # "clear" /\ Contents' # Contents) => version' > version
        /\ version' = version => Contents' = Contents
      ]_vars

\* C11 (as claimed): called on a graph with no nodes, each of
\* getBetweennessCentrality, getShortestPath and getSpanningTree returns a
\* vector of length 0, setComponents changes no node record, and each of
\* the four returns with the process running and the mutex released.
C11_EmptyGraphAnalytics ==
    [][ (op'.name \in AnalyticsCalls /\ nodes = {})
        => /\ (op'.name # "setComponents" => ret' = RetList(<<>>))
           /\ nodeMap' = nodeMap
           /\ ~crashed'
           /\ mutex' = Free
      ]_vars

\* the live sets, the id-to-record mappings and, inside nodeMap, the
\* adjacency index
Containers == <<nodes, nodeMap, edges, edgeMap>>

\* thread t is at statements that read or modify the containers
Inside(t) == pc[t] \in {"first", "crit", "access"}

\* C12 (as claimed): a thread that modifies the live sets, the mappings or
\* the adjacency index, or that reads the live set in deleteNode(), holds
\* the mutex while it does, hasEdge and getEdges included; and no two
\* threads are at such statements at the same time.
C12_ContainersUnderMutex ==
    [][ /\ \A t \in Threads :
              (pc'[t] # pc[t] /\ (Containers' # Containers \/ pc[t] = "first"))
              => mutex = t
        /\ \A t1 \in Threads : \A t2 \in Threads \ {t1} :
              ~(Inside(t1)' /\ Inside(t2)')
      ]_vars

\* the live edges from n to n
SelfLoops(n) == {e \in edges : edgeMap[e].source = n /\ edgeMap[e].target = n}

\* C13: for a live node n with no self-loop in the edge store, a successful
\* addEdge(n, n) raises the in-degree and the out-degree of n by 1 each
\* (getDegree(n) by 2), changes the degree of no other node, and leaves
\* getEdges(n, n) the one-element sequence of the returned edge id.
C13_SelfLoopCountsTwice ==
    [][ \A n \in nodes :
          (/\ op'.name = "addEdge"
           /\ Succeeded(ret')
           /\ edgeMap'[ret'.val] = NewEdge(n, n)
           /\ SelfLoops(n) = {})
          => /\ nodeMap'[n].inDegree = nodeMap[n].inDegree + 1
             /\ nodeMap'[n].outDegree = nodeMap[n].outDegree + 1
             /\ nodeMap'[n].inDegree + nodeMap'[n].outDegree
                   = nodeMap[n].inDegree + nodeMap[n].outDegree + 2
             /\ \A m \in DOMAIN nodeMap \ {n} :
                   /\ nodeMap'[m].inDegree = nodeMap[m].inDegree
                   /\ nodeMap'[m].outDegree = nodeMap[m].outDegree
             /\ TouchBucket(nodeMap', n, n)[n].adjacent[n] = <<ret'.val>>
      ]_vars

\* the second self-loop a live node was given, the first one deleted
C13_Witness ==
    /\ op.name = "addEdge"
    /\ Succeeded(ret)
    /\ ret.val >= 1
    /\ \E n \in nodes :
          /\ SelfLoops(n) = {ret.val}
          /\ nodeMap[n].adjacent[n] = <<ret.val>>
          /\ nodeMap[n].inDegree = 2
          /\ nodeMap[n].outDegree = 2

\* C14 (as claimed): in any interleaving of threads, an addNode() or a
\* successful addEdge returns the id of the entity this call inserted (so
\* no two calls return one id), and the id returned is live as long as
\* nothing was deleted.
C14_ReturnsOwnId ==
    [][ \A t \in Threads :
          (/\ pc[t] = "ret"
           /\ pc'[t] = "idle"
           /\ local[t].name \in {"addNode", "addEdge"}
           /\ local[t].id # Failure)
          => /\ Returned(t) = local[t].id
             /\ (local[t].name = "addNode" /\ nodes = 0 .. nodeId)
                   => Returned(t) \in nodes
             /\ (local[t].name = "addEdge" /\ edges = 0 .. edgeId)
                   => Returned(t) \in edges
      ]_vars

\* C15 (as claimed): when every thread has returned from its calls, with no
\* clear() among them, getVersion() is its initial value plus the number of
\* addNode, addEdge, deleteEdge and deleteNode calls that succeeded.
C15_NoLostVersionBump ==
    (\A t \in Threads : pc[t] = "idle") => version = Sentinel + done

\* C16 (as claimed): once every call that was made has returned, analytics
\* calls on an empty graph among them, the mutex is free, so that a thread
\* waiting in mutex.lock() can go on.
C16_MutexFreeAfterCalls ==
    (\A t \in Threads : pc[t] = "idle") => mutex = Free

\* the ids of S in the order addEdge issued them
RECURSIVE Ascending(_)
Ascending(S) == IF S = {} THEN <<>> ELSE <<Min(S)>> \o Ascending(S \ {Min(S)})

\* the live edges from source to target, oldest first
LiveEdges(source, target) ==
    Ascending({e \in edges : /\ edgeMap[e].source = source
                             /\ edgeMap[e].target = target})

\* C17 (as claimed): after any addNode, addEdge, deleteEdge, deleteNode and
\* clearEdges calls, for every live node s and every node id t, getEdges(s, t)
\* is the sequence of the live edges from s to t in the order they were
\* added, and hasEdge(s, t) is true exactly when that sequence is not empty.
C17_AdjacencyMatchesEdgeStore ==
    \A s \in nodes, t \in NodeArgs :
        /\ TouchBucket(nodeMap, s, t)[s].adjacent[t] = LiveEdges(s, t)
        /\ hasEdgeIn(nodeMap, s, t) <=> LiveEdges(s, t) # <<>>

\* C18 (as claimed): a query (hasEdge, getEdges, getDegree) leaves
\* isValidNode and isValidEdge of every id as they were, so that ids never
\* issued stay rejected by addEdge and deleteNode, and leaves what hasEdge
\* answers for every pair of ids as it was.
C18_QueriesChangeNothing ==
    [][ op'.name \in {"hasEdge", "getEdges", "getDegree"}
        => /\ DOMAIN nodeMap' = DOMAIN nodeMap
           /\ DOMAIN edgeMap' = DOMAIN edgeMap
           /\ \A s \in NodeArgs, t \in NodeArgs :
                 hasEdgeIn(nodeMap', s, t) <=> hasEdgeIn(nodeMap, s, t)
      ]_vars

\* nothing was deleted: the ids are 0 .. count - 1
Dense ==
    /\ nodes = 0 .. nodeId
    /\ DOMAIN nodeMap = nodes
    /\ edges = 0 .. edgeId
    /\ DOMAIN edgeMap = edges

\* C19 (as claimed): on a graph built by addNode and addEdge calls alone,
\* toBoost() returns a graph with getNodeCount() vertices, nodes without
\* edges included, and one edge per live edge, from the index of its
\* source to the index of its target.
C19_ToBoostMirrorsGraph ==
    (op.name = "toBoost" /\ Dense)
    => /\ g.vertices = getNodeCount
       /\ Len(g.edges) = getEdgeCount
       /\ \A e \in edges : g.edges[e + 1] = <<edgeMap[e].source, edgeMap[e].target>>

\* C20 (as claimed): on every reachable graph, node deletions included,
\* setComponents() reads the result vector, of length getNodeCount(), at
\* indices below that length only, and the node records it writes a
\* component id into are those of the live nodes.
C20_ComponentsInBounds ==
    [][ op'.name = "setComponents"
        => /\ op'.a < op'.b
           /\ \A x \in DOMAIN nodeMap' \ nodes :
                 x \in DOMAIN nodeMap /\ nodeMap'[x] = nodeMap[x]
      ]_vars

====
